---- MODULE Spec2Model ----
(***************************************************************************)
(* A model of the transaction-intent pipeline of the SDK:                  *)
(*   - the custodial prepare/send facade of the EVM family                 *)
(*     (packages/shared/abstract-sdk/src/lib/abstract.sdk.ts),             *)
(*   - the Flow transaction service (flowTxService) with its key resolver, *)
(*     its API proposal signer and _sendTransaction,                       *)
(*   - the XRP KMS signer (xrpKmsService.sign).                            *)
(* A request body is a function whose DOMAIN is the set of keys present in *)
(* the JavaScript object, so that `'k' in body`, `body.k` (undefined when  *)
(* absent) and `delete body.k` are told apart.                             *)
(***************************************************************************)
EXTENDS Integers, Sequences, FiniteSets, TLC

VARIABLES
    cust,     \* the last custodial facade call: operation, body, calls made, outcome
    now,      \* the clock read by Date.now(), in milliseconds
    env,      \* process.env restricted to the FLOW_PROPOSAL_KEY_<n> entries
    flow,     \* the in-flight Flow send calls, one record per call slot
    xrp       \* the last call of xrpKmsService.sign: arguments, calls made, outcome

vars == <<cust, now, env, flow, xrp>>

(***************************************************************************)
(* Bounds of the model.                                                    *)
(***************************************************************************)
MaxMantissa == 3      \* amounts are m / 10^s with m in 0..MaxMantissa
MaxScale == 1         \* ... and s in 0..MaxScale
MaxDecimals == 2      \* decimals a token contract may report
MaxTokenId == 1       \* token ids 0..MaxTokenId
MaxFracDigits == 2    \* hexadecimal places kept of a fractional BigNumber
MaxClock == 1         \* Date.now() ranges over 0..MaxClock
MaxKeyId == 2         \* proposal key ids handed out by the API: 1..MaxKeyId
MaxIndex == 1         \* mnemonic derivation indexes 0..MaxIndex (and -1)

(***************************************************************************)
(* JavaScript values.                                                      *)
(***************************************************************************)
Undefined == "undefined"

Has(body, k) == k \in DOMAIN body

\* body.k : the value, or undefined when the key is absent
Prop(body, k) == IF Has(body, k) THEN body[k] ELSE Undefined

\* truthiness of a string-valued property: absent, undefined and '' are falsy
TruthyStr(body, k) == Has(body, k) /\ body[k] # "" /\ body[k] # Undefined

\* delete body.k
Delete(body, k) == [x \in DOMAIN body \ {k} |-> body[x]]

\* { ...body, k: v }
With(body, k, v) == [x \in DOMAIN body \cup {k} |-> IF x = k THEN v ELSE body[x]]

Restrict(body, D) == [x \in D |-> body[x]]

RECURSIVE Pow(_, _)
Pow(b, e) == IF e = 0 THEN 1 ELSE b * Pow(b, e - 1)

(***************************************************************************)
(* bignumber.js, as far as the custodial builders use it.  A BigNumber is  *)
(* NaN or the rational (-1)^neg * num / den with den a power of ten.       *)
(***************************************************************************)
BigNaN == [nan |-> TRUE, neg |-> FALSE, num |-> 0, den |-> 1]

BigInt(n) == [nan |-> FALSE, neg |-> FALSE, num |-> n, den |-> 1]

\* new BigNumber(v) of an amount as the caller wrote it
BigNumber(v) ==
    IF v.kind = "num"
    THEN [nan |-> FALSE, neg |-> v.neg /\ v.m # 0, num |-> v.m, den |-> Pow(10, v.s)]
    ELSE BigNaN

multipliedBy(x, y) ==
    IF x.nan \/ y.nan THEN BigNaN
    ELSE [nan |-> FALSE, neg |-> (x.neg # y.neg) /\ x.num * y.num # 0,
          num |-> x.num * y.num, den |-> x.den * y.den]

HexChar(d) == <<"0", "1", "2", "3", "4", "5", "6", "7", "8", "9",
                "a", "b", "c", "d", "e", "f">>[d + 1]

RECURSIVE HexDigits(_)
HexDigits(n) == IF n < 16 THEN <<HexChar(n)>>
                ELSE Append(HexDigits(n \div 16), HexChar(n % 16))

\* the hexadecimal places of rem/den (0 <= rem < den), at most `places` of them
RECURSIVE HexFraction(_, _, _)
HexFraction(rem, den, places) ==
    IF rem = 0 \/ places = 0 THEN <<>>
    ELSE <<HexChar((rem * 16) \div den)>> \o HexFraction((rem * 16) % den, den, places - 1)

\* x.toString(16): sign, integer part, and a point with the fraction if there is one
toString16(x) ==
    IF x.nan THEN <<"N", "a", "N">>
    ELSE LET ip == x.num \div x.den
             fr == HexFraction(x.num % x.den, x.den, MaxFracDigits)
         IN (IF x.neg THEN <<"-">> ELSE <<>>) \o HexDigits(ip)
            \o (IF x.num % x.den = 0 THEN <<>> ELSE <<".">> \o fr)

\* `0x${x.toString(16)}`
Hex0x(x) == <<"0", "x">> \o toString16(x)

(***************************************************************************)
(* Outcomes of a call: what it did to its collaborators (log), the body    *)
(* object afterwards, and whether it resolved (val) or rejected (err).     *)
(***************************************************************************)
NoErr == [typed |-> FALSE, code |-> "", msg |-> ""]

Call(fn, arg) == [fn |-> fn, arg |-> arg]

Ret(log, body, val) == [log |-> log, body |-> body, ok |-> TRUE, val |-> val, err |-> NoErr]

Thr(log, body, err) ==
    [log |-> log, body |-> body, ok |-> FALSE, val |-> [undefined |-> TRUE], err |-> err]

\* an error raised by a collaborator (web3, the HTTP client, the broadcast function)
RawError(msg) == [typed |-> FALSE, code |-> "", msg |-> msg]

SdkError(code, msg) == [typed |-> TRUE, code |-> code, msg |-> msg]

(***************************************************************************)
(* JavaScript values a call resolves with: a string, undefined, or an      *)
(* object (a function on its keys).                                        *)
(***************************************************************************)
JsString(s) == [string |-> s]

JsUndefined == [undefined |-> TRUE]

Truthy(v) == ~("undefined" \in DOMAIN v) /\ v # JsString("")

\* obj.k of an object value
JsProp(obj, k) == IF k \in DOMAIN obj THEN JsString(obj[k]) ELSE JsUndefined

(***************************************************************************)
(* What the collaborators outside this file answer during one call:        *)
(* evmBasedUtils.decimals, the abstract custodial preparation,             *)
(* helperPrepareSCCall, the hosted API and the broadcast function.         *)
(***************************************************************************)
ApiResponses == {JsUndefined, [txId |-> "0xapi"], [signatureId |-> "kms-1"]}

Flag(used) == IF used THEN BOOLEAN ELSE {FALSE}

\* the answers of the collaborators a call may reach: decimals lookup, abstract
\* preparation, helperPrepareSCCall, hosted API, broadcast function
Exts(dec, prep, build, api, bcast) ==
    [decThrows : Flag(dec), decimals : IF dec THEN 0..MaxDecimals ELSE {0},
     prepThrows : Flag(prep), buildThrows : Flag(build), apiThrows : Flag(api),
     api : IF api THEN ApiResponses ELSE {JsUndefined}, bcastThrows : Flag(bcast)]

\* a call of a hosted-API endpoint: GasPumpService.* / ApiServices.blockchain.gasPump.*
ApiCall(fn, body, ext) ==
    IF ext.apiThrows THEN Thr(<<Call(fn, body)>>, body, RawError("ApiError"))
    ELSE Ret(<<Call(fn, body)>>, body, ext.api)

\* args.broadcastFunction({ txData })
broadcastFunction(b, ext) ==
    LET log == Append(b.log, Call("broadcastFunction", [txData |-> b.val]))
    IN IF ext.bcastThrows THEN Thr(log, b.body, RawError("BroadcastError"))
       ELSE Ret(log, b.body, [txId |-> "0xbroadcast"])

\* evmBasedUtils.tryCatch(method, code): a failure is rethrown as the family's
\* typed error carrying the given code
tryCatch(r, code) ==
    IF r.ok THEN r ELSE Thr(r.log, r.body, SdkError(code, r.err.msg))

(***************************************************************************)
(* The request bodies.                                                     *)
(***************************************************************************)
NumAmounts == [kind : {"num"}, neg : BOOLEAN, m : 0..MaxMantissa, s : 0..MaxScale]

NonNumeric == [kind |-> "nan", neg |-> FALSE, m |-> 0, s |-> 0]

Amounts == NumAmounts \cup {NonNumeric}

TokenIds == [kind : {"num"}, neg : {FALSE}, m : 0..MaxTokenId, s : {0}]

SignatureIds == {"", "sig-1"}

\* ChainTransferCustodialWallet / ChainBatchTransferCustodialWallet
TransferBodies ==
    { Restrict([custodialAddress |-> "0xcustodial", signatureId |-> sid], D) :
        sid \in SignatureIds,
        D \in {{"custodialAddress"}, {"custodialAddress", "signatureId"}} }

\* ChainApproveCustodialTransfer
ApproveBodies ==
    { Restrict([custodialAddress |-> "0xcustodial", tokenAddress |-> "0xtoken",
                spender |-> "0xspender", contractType |-> ct, amount |-> am,
                tokenId |-> tid, signatureId |-> sid],
               {"custodialAddress", "tokenAddress", "spender", "contractType"} \cup D) :
        ct \in 0..1, am \in Amounts, tid \in TokenIds, sid \in SignatureIds,
        D \in SUBSET {"amount", "tokenId", "signatureId"} }

\* ChainGenerateCustodialWalletBatch
BatchBodies ==
    { Restrict([batchCount |-> 1, feesCovered |-> fc, signatureId |-> sid],
               {"batchCount"} \cup D) :
        fc \in BOOLEAN, sid \in SignatureIds,
        D \in SUBSET {"feesCovered", "signatureId"} }

(***************************************************************************)
(* The local builders.                                                     *)
(***************************************************************************)
transferFromCustodialWallet(body, ext) ==
    LET log == <<Call("prepareTransferFromCustodialWalletAbstract",
                      [body |-> body, defaultDecimals |-> 18])>>
    IN IF ext.prepThrows THEN Thr(log, body, RawError("PrepareError"))
       ELSE Ret(log, body, JsString("signedTx"))

batchTransferFromCustodialWallet(body, ext) ==
    LET log == <<Call("prepareBatchTransferFromCustodialWalletAbstract",
                      [body |-> body, defaultDecimals |-> 18])>>
    IN IF ext.prepThrows THEN Thr(log, body, RawError("PrepareError"))
       ELSE Ret(log, body, JsString("signedTx"))

\* body.amount || 0, body.tokenId || 0
OrZero(body, k) == IF Has(body, k) THEN BigNumber(body[k]) ELSE BigInt(0)

approveFromCustodialWallet(body, ext) ==
    LET fungible == body.contractType = 0
        log1 == IF fungible
                THEN <<Call("evmBasedUtils.decimals", [tokenAddress |-> body.tokenAddress])>>
                ELSE <<>>
        decimals == IF fungible THEN ext.decimals ELSE 0
        params == <<body.tokenAddress, body.contractType, body.spender,
                    Hex0x(multipliedBy(OrZero(body, "amount"), BigInt(Pow(10, decimals)))),
                    Hex0x(OrZero(body, "tokenId"))>>
        body2 == Delete(body, "amount")
        log2 == Append(log1, Call("helperPrepareSCCall",
                    [body |-> With(body2, "contractAddress", body2.custodialAddress),
                     methodName |-> "approve", params |-> params]))
    IN IF fungible /\ ext.decThrows THEN Thr(log1, body, RawError("DecimalsError"))
       ELSE IF ext.buildThrows THEN Thr(log2, body2, RawError("BuildError"))
       ELSE Ret(log2, body2, JsString("signedTx"))

\* a variant that returns the txId of whatever the API answered
generateCustodialBatch_unchecked(body, ext) ==
    LET r == ApiCall("ApiServices.blockchain.gasPump.generateCustodialWalletBatch", body, ext)
    IN IF ~r.ok THEN r ELSE Ret(r.log, body, JsProp(r.val, "txId"))

generateCustodialBatch(body, ext) ==
    LET r == ApiCall("ApiServices.blockchain.gasPump.generateCustodialWalletBatch", body, ext)
    IN IF ~r.ok THEN r
       ELSE IF Truthy(r.val) THEN Ret(r.log, body, JsProp(r.val, "txId"))
       ELSE Thr(r.log, body, RawError("Unable to generate custodial wallet address."))

custodialWalletBatch(body, ext) ==
    LET log1 == <<Call("prepareCustodialWalletBatchAbstract", [body |-> body])>>
        log2 == Append(log1, Call("helperPrepareSCCall",
                    [body |-> With(body, "contractAddress", "0xfactory"),
                     methodName |-> "cloneNewWallet", params |-> <<body.batchCount>>]))
    IN IF ext.prepThrows THEN Thr(log1, body, RawError("PrepareError"))
       ELSE IF ext.buildThrows THEN Thr(log2, body, RawError("BuildError"))
       ELSE Ret(log2, body, JsString("signedTx"))

(***************************************************************************)
(* custodial(args).prepare.*                                               *)
(***************************************************************************)
prepare_transferFromCustodialWallet(body, ext) ==
    tryCatch(transferFromCustodialWallet(body, ext), "EVM_CUSTODIAL_CANNOT_PREPARE_TRANSFER_TX")

prepare_batchTransferFromCustodialWallet(body, ext) ==
    tryCatch(batchTransferFromCustodialWallet(body, ext),
             "EVM_CUSTODIAL_CANNOT_PREPARE_TRANSFER_BATCH_TX")

prepare_approveFromCustodialWallet(body, ext) ==
    tryCatch(approveFromCustodialWallet(body, ext), "EVM_CUSTODIAL_CANNOT_PREPARE_APPROVE_TX")

prepare_custodialWalletBatch(body, ext) ==
    tryCatch(custodialWalletBatch(body, ext), "EVM_CUSTODIAL_CANNOT_PREPARE_DEPLOY_TX")

(***************************************************************************)
(* custodial(args).send.*                                                  *)
(***************************************************************************)
\* a variant that returns the built transaction without broadcasting it
BuildThenBroadcast_returnsTxData(b, ext) == b

\* txData: await build(...) ; then args.broadcastFunction({ txData })
BuildThenBroadcast(b, ext) == IF b.ok THEN broadcastFunction(b, ext) ELSE b

send_transferFromCustodialWallet(body, ext) ==
    IF TruthyStr(body, "signatureId")
    THEN ApiCall("GasPumpService.transferCustodialWallet", body, ext)
    ELSE BuildThenBroadcast(transferFromCustodialWallet(body, ext), ext)

send_batchTransferFromCustodialWallet(body, ext) ==
    IF TruthyStr(body, "signatureId")
    THEN ApiCall("GasPumpService.transferCustodialWalletBatch", body, ext)
    ELSE BuildThenBroadcast(batchTransferFromCustodialWallet(body, ext), ext)

\* a variant that builds the approve call before it looks at signatureId
send_approveFromCustodialWallet_buildsFirst(body, ext) ==
    LET b == approveFromCustodialWallet(body, ext)
    IN IF TruthyStr(body, "signatureId")
       THEN ApiCall("GasPumpService.approveTransferCustodialWallet", b.body, ext)
       ELSE IF b.ok THEN broadcastFunction(b, ext) ELSE b

send_approveFromCustodialWallet(body, ext) ==
    IF TruthyStr(body, "signatureId")
    THEN ApiCall("GasPumpService.approveTransferCustodialWallet", body, ext)
    ELSE BuildThenBroadcast(approveFromCustodialWallet(body, ext), ext)

\* a variant that tests signatureId before feesCovered
send_custodialWalletBatch_signatureIdFirst(body, ext) ==
    IF Has(body, "signatureId")
    THEN ApiCall("GasPumpService.generateCustodialWalletBatch", body, ext)
    ELSE IF Has(body, "feesCovered") THEN generateCustodialBatch(body, ext)
    ELSE IF custodialWalletBatch(body, ext).ok
    THEN broadcastFunction(custodialWalletBatch(body, ext), ext)
    ELSE custodialWalletBatch(body, ext)

send_custodialWalletBatch(body, ext) ==
    IF Has(body, "feesCovered") THEN generateCustodialBatch(body, ext)
    ELSE IF Has(body, "signatureId")
    THEN ApiCall("GasPumpService.generateCustodialWalletBatch", body, ext)
    ELSE BuildThenBroadcast(custodialWalletBatch(body, ext), ext)

(***************************************************************************)
(* One facade call, start to finish.  cust keeps the call for inspection.  *)
(***************************************************************************)
\* op, mode: the operation called; body0: the body as passed; ext: what the
\* collaborators answered; body: the body object after the call; log: the calls made
\* to collaborators, in order; ok, val, err: resolved with val or rejected with err
NoExt == CHOOSE e \in Exts(FALSE, FALSE, FALSE, FALSE, FALSE) : TRUE

NoCall == [op |-> "none", mode |-> "none", body0 |-> <<>>, ext |-> NoExt, body |-> <<>>,
           log |-> <<>>, ok |-> TRUE, val |-> JsUndefined, err |-> NoErr]

Finished(op, mode, body, ext, r) ==
    [op |-> op, mode |-> mode, body0 |-> body, ext |-> ext, body |-> r.body, log |-> r.log,
     ok |-> r.ok, val |-> r.val, err |-> r.err]

PrepareTransferFromCustodialWallet ==
    /\ cust = NoCall
    /\ \E body \in TransferBodies, ext \in Exts(FALSE, TRUE, FALSE, FALSE, FALSE) :
          cust' = Finished("transferFromCustodialWallet", "prepare", body, ext,
                           prepare_transferFromCustodialWallet(body, ext))
    /\ UNCHANGED <<now, env, flow, xrp>>

PrepareBatchTransferFromCustodialWallet ==
    /\ cust = NoCall
    /\ \E body \in TransferBodies, ext \in Exts(FALSE, TRUE, FALSE, FALSE, FALSE) :
          cust' = Finished("batchTransferFromCustodialWallet", "prepare", body, ext,
                           prepare_batchTransferFromCustodialWallet(body, ext))
    /\ UNCHANGED <<now, env, flow, xrp>>

PrepareApproveFromCustodialWallet ==
    /\ cust = NoCall
    /\ \E body \in ApproveBodies, ext \in Exts(TRUE, FALSE, TRUE, FALSE, FALSE) :
          cust' = Finished("approveFromCustodialWallet", "prepare", body, ext,
                           prepare_approveFromCustodialWallet(body, ext))
    /\ UNCHANGED <<now, env, flow, xrp>>

PrepareCustodialWalletBatch ==
    /\ cust = NoCall
    /\ \E body \in BatchBodies, ext \in Exts(FALSE, TRUE, TRUE, FALSE, FALSE) :
          cust' = Finished("custodialWalletBatch", "prepare", body, ext,
                           prepare_custodialWalletBatch(body, ext))
    /\ UNCHANGED <<now, env, flow, xrp>>

SendTransferFromCustodialWallet ==
    /\ cust = NoCall
    /\ \E body \in TransferBodies, ext \in Exts(FALSE, TRUE, FALSE, TRUE, TRUE) :
          cust' = Finished("transferFromCustodialWallet", "send", body, ext,
                           send_transferFromCustodialWallet(body, ext))
    /\ UNCHANGED <<now, env, flow, xrp>>

SendBatchTransferFromCustodialWallet ==
    /\ cust = NoCall
    /\ \E body \in TransferBodies, ext \in Exts(FALSE, TRUE, FALSE, TRUE, TRUE) :
          cust' = Finished("batchTransferFromCustodialWallet", "send", body, ext,
                           send_batchTransferFromCustodialWallet(body, ext))
    /\ UNCHANGED <<now, env, flow, xrp>>

SendApproveFromCustodialWallet ==
    /\ cust = NoCall
    /\ \E body \in ApproveBodies, ext \in Exts(TRUE, FALSE, TRUE, TRUE, TRUE) :
          cust' = Finished("approveFromCustodialWallet", "send", body, ext,
                           send_approveFromCustodialWallet(body, ext))
    /\ UNCHANGED <<now, env, flow, xrp>>

SendCustodialWalletBatch ==
    /\ cust = NoCall
    /\ \E body \in BatchBodies, ext \in Exts(FALSE, TRUE, TRUE, TRUE, TRUE) :
          cust' = Finished("custodialWalletBatch", "send", body, ext,
                           send_custodialWalletBatch(body, ext))
    /\ UNCHANGED <<now, env, flow, xrp>>

\* the caller has taken the outcome; the facade is called again
CustodialReturn ==
    /\ cust # NoCall
    /\ cust' = NoCall
    /\ UNCHANGED <<now, env, flow, xrp>>

NextCustodial ==
    \/ CustodialReturn
    \/ PrepareTransferFromCustodialWallet
    \/ PrepareBatchTransferFromCustodialWallet
    \/ PrepareApproveFromCustodialWallet
    \/ PrepareCustodialWalletBatch
    \/ SendTransferFromCustodialWallet
    \/ SendBatchTransferFromCustodialWallet
    \/ SendApproveFromCustodialWallet
    \/ SendCustodialWalletBatch

(***************************************************************************)
(* flowTxService: the Flow send operations.                                *)
(***************************************************************************)
FlowOps == {"sendTransaction", "sendCustomTransaction", "sendNftMintToken",
            "sendNftMintMultipleToken", "sendNftTransferToken", "sendNftBurnToken"}

Indexes == {-1} \cup 0..MaxIndex

\* FlowMnemonicOrPrivateKeyOrSignatureId
FlowBodies ==
    { Restrict([account |-> "0xaccount", privateKey |-> pk, mnemonic |-> "mnemonic words",
                index |-> ix, signatureId |-> "sig-1"], {"account"} \cup D) :
        pk \in {"", "raw-key"}, ix \in Indexes,
        D \in SUBSET {"privateKey", "mnemonic", "index", "signatureId"} }

\* new FlowSdkError(code) and new FlowSdkError(cause)
FlowSdkError(code, msg) == SdkError(code, msg)

\* flowSdkWallet.generatePrivateKeyFromMnemonic(mnemonic, index): the key of the
\* chain's derivation path at that index, a function of (mnemonic, index)
generatePrivateKeyFromMnemonic(mnemonic, index) == [derivedFrom |-> mnemonic, index |-> index]

\* truthiness of a number-valued property: absent and 0 are falsy
TruthyNum(body, k) == Has(body, k) /\ body[k] # 0

\* a variant that prefers the mnemonic to the raw key
getPrivateKey_mnemonicFirst(body) ==
    IF TruthyStr(body, "mnemonic") /\ TruthyNum(body, "index") /\ body.index >= 0
    THEN Ret(<<Call("generatePrivateKeyFromMnemonic",
                    [mnemonic |-> body.mnemonic, index |-> body.index])>>, body,
             generatePrivateKeyFromMnemonic(body.mnemonic, body.index))
    ELSE IF TruthyStr(body, "privateKey")
    THEN Ret(<<>>, body, JsString(body.privateKey))
    ELSE Thr(<<>>, body, FlowSdkError("FLOW_MISSING_MNEMONIC", ""))

\* a variant that derives without checking that there is a mnemonic
getPrivateKey_unchecked(body) ==
    IF TruthyStr(body, "privateKey")
    THEN Ret(<<>>, body, JsString(body.privateKey))
    ELSE Ret(<<Call("generatePrivateKeyFromMnemonic",
                    [mnemonic |-> Prop(body, "mnemonic"), index |-> Prop(body, "index")])>>,
             body,
             generatePrivateKeyFromMnemonic(Prop(body, "mnemonic"), Prop(body, "index")))

getPrivateKey(body) ==
    IF TruthyStr(body, "privateKey")
    THEN Ret(<<>>, body, JsString(body.privateKey))
    ELSE IF TruthyStr(body, "mnemonic") /\ TruthyNum(body, "index") /\ body.index >= 0
    THEN Ret(<<Call("generatePrivateKeyFromMnemonic",
                    [mnemonic |-> body.mnemonic, index |-> body.index])>>, body,
             generatePrivateKeyFromMnemonic(body.mnemonic, body.index))
    ELSE Thr(<<>>, body, FlowSdkError("FLOW_MISSING_MNEMONIC", ""))

\* the keyHash of getApiSigner: `FLOW_PROPOSAL_KEY_${Date.now()}`, here <<Date.now()>>;
\* <<>> is undefined (a proposer of the caller's brings no keyHash)
NoKeyHash == <<>>

getApiSigner(clock) == <<clock>>

\* proposalKey(keyHash): parseInt(process.env[keyHash] || '0')
proposalKey(keyHash, e) == IF keyHash[1] \in DOMAIN e THEN e[keyHash[1]] ELSE 0

\* delete process.env[keyHash]
DeleteEnv(e, keyHash) == [k \in DOMAIN e \ {keyHash[1]} |-> e[k]]

NoEnv == [k \in {} |-> 0]

IdleCall == [pc |-> "idle", op |-> "none", body |-> <<>>, customProposer |-> FALSE,
             pk |-> JsUndefined, keyHash |-> NoKeyHash, registered |-> FALSE,
             sent |-> "no", txId |-> "", seal |-> "none", events |-> <<>>,
             pending |-> Ret(<<>>, <<>>, JsUndefined), log |-> <<>>,
             ok |-> TRUE, val |-> JsUndefined, err |-> NoErr]

Calls == DOMAIN flow

\* the call is over: it resolves or rejects as the completion r says
Settle(call, r) == [call EXCEPT !.pc = "done", !.ok = r.ok, !.val = r.val, !.err = r.err]

\* what a send operation does up to its first wait on the chain: resolve the key,
\* take the proposal signer, and hand the transaction to fcl.send
StartSend(op, body, customProposer, clock) ==
    LET k == getPrivateKey(body)
        call == [IdleCall EXCEPT !.op = op, !.body = body,
                                 !.customProposer = customProposer, !.log = k.log]
    IN IF ~k.ok THEN Settle(call, k)
       ELSE IF ~Truthy(k.val)
       THEN Settle(call, Thr(<<>>, body, FlowSdkError("FLOW_MISSING_PRIVATE_KEY", "")))
       ELSE [call EXCEPT !.pc = "send", !.pk = k.val,
                         !.keyHash = IF customProposer THEN NoKeyHash
                                     ELSE getApiSigner(clock),
                         !.log = Append(k.log, Call("fcl.send", [limit |-> 1000]))]

\* a send operation is called with one of the given bodies and proposers
FlowStartOf(c, ops, bodies, proposers) ==
    /\ flow[c].pc = "idle"
    /\ \E op \in ops, body \in bodies, customProposer \in proposers :
          flow' = [flow EXCEPT ![c] = StartSend(op, body, customProposer, now)]
    /\ UNCHANGED <<cust, now, env, xrp>>

FlowStart(c) == FlowStartOf(c, FlowOps, FlowBodies, BOOLEAN)

\* createAccountFromPublicKey(testnet, publicKey, signerAddress, signerPrivateKey,
\* proposer): the signer's key is an argument and goes to getSigner as it is
AccountBodies == {[account |-> "0xsigner", privateKey |-> "raw-key"]}

StartAccount(body, customProposer, clock) ==
    [IdleCall EXCEPT !.op = "createAccountFromPublicKey", !.body = body,
                     !.customProposer = customProposer, !.pc = "send",
                     !.pk = JsString(body.privateKey),
                     !.keyHash = IF customProposer THEN NoKeyHash ELSE getApiSigner(clock),
                     !.log = <<Call("fcl.send", [limit |-> 1000])>>]

FlowStartAccount(c) ==
    /\ flow[c].pc = "idle"
    /\ \E body \in AccountBodies, customProposer \in BOOLEAN :
          flow' = [flow EXCEPT ![c] = StartAccount(body, customProposer, now)]
    /\ UNCHANGED <<cust, now, env, xrp>>

\* inside fcl.send: the API proposal signer asks the API for a key and stages its id
\* under the call's keyHash
SignerRegister(c) ==
    /\ flow[c].pc = "send"
    /\ flow[c].keyHash # NoKeyHash
    /\ ~flow[c].registered
    /\ \E keyId \in 1..MaxKeyId :
          /\ env' = [k \in DOMAIN env \cup {flow[c].keyHash[1]} |->
                        IF k = flow[c].keyHash[1] THEN keyId ELSE env[k]]
          /\ flow' = [flow EXCEPT ![c].registered = TRUE,
                        ![c].log = Append(@, Call("getSignKey", [keyId |-> keyId]))]
    /\ UNCHANGED <<cust, now, xrp>>

\* a variant that submits once more after a failed submission
CatchSend_retries(call, e) ==
    IF Cardinality({i \in DOMAIN call.log : call.log[i].fn = "fcl.send"}) < 2
    THEN [call EXCEPT !.pc = "send", !.sent = "failed",
                      !.log = Append(@, Call("fcl.send", [limit |-> 1000]))]
    ELSE Settle([call EXCEPT !.sent = "failed"],
                Thr(<<>>, <<>>, FlowSdkError("", "SubmissionError")))

\* a variant whose catch block releases without testing keyHash
CatchSend_releasesUnguarded(call, e) ==
    IF call.keyHash # NoKeyHash
    THEN [call EXCEPT !.pc = "releaseCatch", !.sent = "failed",
                      !.pending = Thr(<<>>, <<>>, FlowSdkError("", "SubmissionError")),
                      !.log = Append(@, Call("flowSdkBlockchain.broadcast",
                                  [txId |-> "", proposalKey |-> proposalKey(call.keyHash, e)]))]
    ELSE Settle([call EXCEPT !.sent = "failed",
                             !.log = Append(@, Call("flowSdkBlockchain.broadcast",
                                                    [txId |-> "", proposalKey |-> 0]))],
                Thr(<<>>, <<>>, FlowSdkError("", "SubmissionError")))

\* the catch block of the submission, up to its wait on the release call
CatchSend(call, e) ==
    IF call.keyHash # NoKeyHash
    THEN [call EXCEPT !.pc = "releaseCatch", !.sent = "failed",
                      !.pending = Thr(<<>>, <<>>, FlowSdkError("", "SubmissionError")),
                      !.log = Append(@, Call("flowSdkBlockchain.broadcast",
                                  [txId |-> "", proposalKey |-> proposalKey(call.keyHash, e)]))]
    ELSE Settle([call EXCEPT !.sent = "failed"],
                Thr(<<>>, <<>>, FlowSdkError("", "SubmissionError")))

\* fcl.send throws
SendFails(c) ==
    /\ flow[c].pc = "send"
    /\ flow' = [flow EXCEPT ![c] = CatchSend(flow[c], env)]
    /\ UNCHANGED <<cust, now, env, xrp>>

\* fcl.send returns the transaction id; the proposer has been resolved by then
SendReturns(c) ==
    /\ flow[c].pc = "send"
    /\ flow[c].customProposer \/ flow[c].registered
    /\ \E id \in {"tx-1", "tx-2"} :
          flow' = [flow EXCEPT ![c].pc = "seal", ![c].sent = "ok", ![c].txId = id,
                     ![c].log = Append(@, Call("onceSealed", [txId |-> id]))]
    /\ UNCHANGED <<cust, now, env, xrp>>

SealOutcomes == {"sealed", "error", "throws"}

\* the events of a sealed transaction
MintedEvent == [type |-> "A.87fe4ebd0cddde06.TatumMultiNFT.Minted", data |-> [id |-> "7"]]

AccountCreatedEvent == [type |-> "flow.AccountCreated", data |-> [address |-> "0xnew"]]

WithdrawnEvent == [type |-> "A.7e60df042a9c0868.FlowToken.TokensWithdrawn",
                   data |-> [amount |-> "1.0"]]

EventLists == {<<>>, <<WithdrawnEvent>>, <<WithdrawnEvent, MintedEvent>>,
               <<WithdrawnEvent, AccountCreatedEvent>>}

\* what onceSealed answers: { error, events }, or it throws
SealAnswers == [outcome : {"sealed"}, events : EventLists]
                  \cup [outcome : SealOutcomes \ {"sealed"}, events : {<<>>}]

\* e.type.includes('TatumMultiNFT.Minted')
IsMinted(e) == e.type \in {"A.87fe4ebd0cddde06.TatumMultiNFT.Minted"}

\* e.type === 'flow.AccountCreated'
IsAccountCreated(e) == e.type = "flow.AccountCreated"

\* events.find(test)?.data on the events that pass the test, in their order: the
\* data of the first one, or undefined
FindData(hits) == IF hits = <<>> THEN JsUndefined ELSE Head(hits).data

\* data?.k on the outcome of find
OptProp(data, k) == IF data = JsUndefined THEN JsUndefined ELSE JsString(data[k])

\* `${v}`: the characters of v, and 'undefined' for undefined
TemplateString(v) == IF v = JsUndefined THEN JsString("undefined") ELSE v

\* events.filter(e => e.type.includes('TatumMultiNFT.Minted')).map(e => e.data.id.toString())
MintedIds(events) ==
    LET hits == SelectSeq(events, IsMinted)
    IN [i \in DOMAIN hits |-> hits[i].data.id]

\* what each operation returns from the result { id, events } of _sendTransaction
OpResult(op, id, events) ==
    CASE op = "createAccountFromPublicKey" ->
            [txId |-> id, address |-> OptProp(FindData(SelectSeq(events, IsAccountCreated)), "address")]
      [] op = "sendNftMintToken" ->
            [txId |-> id,
             tokenId |-> TemplateString(OptProp(FindData(SelectSeq(events, IsMinted)), "id"))]
      [] op = "sendNftMintMultipleToken" -> [txId |-> id, tokenId |-> MintedIds(events)]
      [] op = "sendCustomTransaction" -> [txId |-> id, events |-> events]
      [] OTHER -> [txId |-> id]

\* the try block around onceSealed with the operation's return statement, and the
\* finally block up to its wait on the release call
AfterSeal(call, answer, e) ==
    LET result == IF answer.outcome = "sealed"
                  THEN Ret(<<>>, <<>>, OpResult(call.op, call.txId, answer.events))
                  ELSE IF answer.outcome = "error"
                  THEN Thr(<<>>, <<>>, FlowSdkError("", "ChainError"))
                  ELSE Thr(<<>>, <<>>, FlowSdkError("", "ConfirmationError"))
        acked == [call EXCEPT !.seal = answer.outcome, !.events = answer.events]
    IN IF call.keyHash # NoKeyHash
       THEN [acked EXCEPT !.pc = "releaseFinally", !.pending = result,
                          !.log = Append(@, Call("flowSdkBlockchain.broadcast",
                                   [txId |-> call.txId,
                                    proposalKey |-> proposalKey(call.keyHash, e)]))]
       ELSE Settle(acked, result)

Sealed(c) ==
    /\ flow[c].pc = "seal"
    /\ \E answer \in SealAnswers :
          flow' = [flow EXCEPT ![c] = AfterSeal(flow[c], answer, env)]
    /\ UNCHANGED <<cust, now, env, xrp>>

\* the release call of the catch block answers: on success the entry is deleted and
\* the submission error rethrown; on failure the release error is thrown instead
ReleaseCatchEnv(call, released, e) == IF released THEN DeleteEnv(e, call.keyHash) ELSE e

ReleaseCatch(c) ==
    /\ flow[c].pc = "releaseCatch"
    /\ \E released \in BOOLEAN :
          /\ env' = ReleaseCatchEnv(flow[c], released, env)
          /\ flow' = [flow EXCEPT ![c] =
                IF released THEN Settle(flow[c], flow[c].pending)
                ELSE Settle(flow[c], Thr(<<>>, <<>>, FlowSdkError("", "ReleaseError")))]
    /\ UNCHANGED <<cust, now, xrp>>

\* the release call of the finally block answers: on success the entry is deleted
\* and the call completes as the try block decided; on failure the release error
\* leaves the finally block as it is
ReleaseFinallyEnv(call, released, e) == IF released THEN DeleteEnv(e, call.keyHash) ELSE e

ReleaseFinally(c) ==
    /\ flow[c].pc = "releaseFinally"
    /\ \E released \in BOOLEAN :
          /\ env' = ReleaseFinallyEnv(flow[c], released, env)
          /\ flow' = [flow EXCEPT ![c] =
                IF released THEN Settle(flow[c], flow[c].pending)
                ELSE Settle(flow[c], Thr(<<>>, <<>>, RawError("ReleaseError")))]
    /\ UNCHANGED <<cust, now, xrp>>

\* the caller has taken the outcome; the slot serves the next call
FlowReturn(c) ==
    /\ flow[c].pc = "done"
    /\ flow' = [flow EXCEPT ![c] = IdleCall]
    /\ UNCHANGED <<cust, now, env, xrp>>

\* a millisecond passes
Tick ==
    /\ now < MaxClock
    /\ now' = now + 1
    /\ UNCHANGED <<cust, env, flow, xrp>>

NextFlow ==
    \/ Tick
    \/ \E c \in Calls : FlowStart(c)
    \/ \E c \in Calls : FlowStartAccount(c)
    \/ \E c \in Calls : SignerRegister(c)
    \/ \E c \in Calls : SendFails(c)
    \/ \E c \in Calls : SendReturns(c)
    \/ \E c \in Calls : Sealed(c)
    \/ \E c \in Calls : ReleaseCatch(c)
    \/ \E c \in Calls : ReleaseFinally(c)
    \/ \E c \in Calls : FlowReturn(c)

(***************************************************************************)
(* xrpKmsService: signing a pending KMS transaction.                       *)
(***************************************************************************)
Currencies == {"XRP", "BTC", "ETH", "FLOW", "XLM", "CELO", "SOL"}

SerializedTransactions == {"txjson-1", "txjson-2", "txjson-3", "txjson-4", "txjson-5"}

Secrets == {"secret-1", "secret-2", "secret-3"}

\* PendingTransaction
PendingTransactions == [chain : Currencies, serializedTransaction : SerializedTransactions]

XrpSdkError(code) == SdkError(code, "")

\* rippleAPI.sign(txJSON, secret): the signed blob and its id, or an error
rippleSign(txJSON, secret, throws) ==
    IF throws THEN Thr(<<Call("rippleAPI.sign", [txJSON |-> txJSON, secret |-> secret])>>,
                       <<>>, RawError("RippleError"))
    ELSE Ret(<<Call("rippleAPI.sign", [txJSON |-> txJSON, secret |-> secret])>>, <<>>,
             [signedTransaction |-> <<"signed", txJSON, secret>>, id |-> <<"id", txJSON>>])

\* a variant that signs whatever the chain of the pending transaction
sign_unchecked(tx, secret, throws) ==
    LET r == rippleSign(tx.serializedTransaction, secret, throws)
    IN IF r.ok THEN Ret(r.log, <<>>, [signedTransaction |-> r.val.signedTransaction]) ELSE r

sign(tx, secret, throws) ==
    IF tx.chain # "XRP" THEN Thr(<<>>, <<>>, XrpSdkError("KMS_CHAIN_MISMATCH"))
    ELSE LET r == rippleSign(tx.serializedTransaction, secret, throws)
         IN IF r.ok THEN Ret(r.log, <<>>, [signedTransaction |-> r.val.signedTransaction])
            ELSE r

NoSign == [called |-> FALSE, tx |-> <<>>, secret |-> "", log |-> <<>>, ok |-> TRUE,
           val |-> JsUndefined, err |-> NoErr]

XrpSign ==
    /\ ~xrp.called
    /\ \E tx \in PendingTransactions, secret \in Secrets, throws \in BOOLEAN :
          LET r == sign(tx, secret, throws)
          IN xrp' = [called |-> TRUE, tx |-> tx, secret |-> secret, log |-> r.log,
                     ok |-> r.ok, val |-> r.val, err |-> r.err]
    /\ UNCHANGED <<cust, now, env, flow>>

\* the caller has taken the outcome; sign is called again
XrpReturn ==
    /\ xrp.called
    /\ xrp' = NoSign
    /\ UNCHANGED <<cust, now, env, flow>>

NextXrp == XrpSign \/ XrpReturn

Init ==
    /\ cust = NoCall
    /\ now = 0
    /\ env = NoEnv
    /\ flow = [c \in {1} |-> IdleCall]
    /\ xrp = NoSign

Next == NextCustodial \/ NextFlow \/ NextXrp

Spec == Init /\ [][Next]_vars

SpecCustodial == Init /\ [][NextCustodial]_vars

SpecFlow == Init /\ [][NextFlow]_vars

SpecXrp == Init /\ [][NextXrp]_vars

(***************************************************************************)
(* Two Flow send calls in flight at once, both on the default API proposer.*)
(***************************************************************************)
ConcBodies == {[account |-> "0xabc", privateKey |-> "raw-key"]}

InitConc ==
    /\ cust = NoCall
    /\ now = 0
    /\ env = NoEnv
    /\ flow = [c \in {1, 2} |-> IdleCall]
    /\ xrp = NoSign

NextConc ==
    \/ Tick
    \/ \E c \in Calls : FlowStartOf(c, {"sendTransaction"}, ConcBodies, {FALSE})
    \/ \E c \in Calls : SignerRegister(c)
    \/ \E c \in Calls : SendFails(c)
    \/ \E c \in Calls : SendReturns(c)
    \/ \E c \in Calls : Sealed(c)
    \/ \E c \in Calls : ReleaseCatch(c)
    \/ \E c \in Calls : ReleaseFinally(c)
    \/ \E c \in Calls : FlowReturn(c)

SpecFlowConc == InitConc /\ [][NextConc]_vars

(***************************************************************************)
(* Vocabulary of the properties.                                           *)
(***************************************************************************)
Count(log, fns) == Cardinality({i \in DOMAIN log : log[i].fn \in fns})

KmsEndpoints == {"GasPumpService.transferCustodialWallet",
                 "GasPumpService.transferCustodialWalletBatch",
                 "GasPumpService.approveTransferCustodialWallet",
                 "GasPumpService.generateCustodialWalletBatch"}

FeesCoveredEndpoint == {"ApiServices.blockchain.gasPump.generateCustodialWalletBatch"}

HostedEndpoints == KmsEndpoints \cup FeesCoveredEndpoint

BroadcastFn == {"broadcastFunction"}

LocalBuildFns == {"prepareTransferFromCustodialWalletAbstract",
                  "prepareBatchTransferFromCustodialWalletAbstract",
                  "prepareCustodialWalletBatchAbstract",
                  "evmBasedUtils.decimals", "helperPrepareSCCall"}

KmsEndpointOf(op) ==
    IF op = "transferFromCustodialWallet" THEN "GasPumpService.transferCustodialWallet"
    ELSE IF op = "batchTransferFromCustodialWallet"
    THEN "GasPumpService.transferCustodialWalletBatch"
    ELSE "GasPumpService.approveTransferCustodialWallet"

\* floor((-1)^neg * num / den) of a BigNumber that is a number
Floor(x) == IF x.neg /\ x.num % x.den # 0 THEN -((x.num \div x.den) + 1)
            ELSE IF x.neg THEN -(x.num \div x.den) ELSE x.num \div x.den

\* C2: send.custodialWalletBatch takes exactly one of three paths, feesCovered
\* before signatureId before the local build: with the key feesCovered present only
\* the hosted batch generation is called (also when signatureId is present too);
\* else with the key signatureId present only
\* GasPumpService.generateCustodialWalletBatch is called; else the transaction is
\* built locally and, once built, handed to broadcastFunction.
C2_BatchDispatchPrecedence ==
    (cust.op = "custodialWalletBatch" /\ cust.mode = "send") =>
        IF Has(cust.body0, "feesCovered")
        THEN /\ Len(cust.log) = 1
             /\ cust.log[1] = Call("ApiServices.blockchain.gasPump.generateCustodialWalletBatch",
                                   cust.body0)
        ELSE IF Has(cust.body0, "signatureId")
        THEN /\ Len(cust.log) = 1
             /\ cust.log[1] = Call("GasPumpService.generateCustodialWalletBatch", cust.body0)
        ELSE /\ Count(cust.log, HostedEndpoints) = 0
             /\ Count(cust.log, {"prepareCustodialWalletBatchAbstract"}) = 1
             /\ Count(cust.log, BroadcastFn) =
                    (IF cust.ext.prepThrows \/ cust.ext.buildThrows THEN 0 ELSE 1)
             /\ \A i \in DOMAIN cust.log :
                    cust.log[i].fn = "broadcastFunction" =>
                        /\ i = Len(cust.log)
                        /\ cust.log[i].arg = [txData |-> JsString("signedTx")]

C2_Witness ==
    /\ cust.op = "custodialWalletBatch" /\ cust.mode = "send"
    /\ Has(cust.body0, "feesCovered") /\ Has(cust.body0, "signatureId")
    /\ Count(cust.log, FeesCoveredEndpoint) = 1

\* C3: send.transferFromCustodialWallet, send.batchTransferFromCustodialWallet and
\* send.approveFromCustodialWallet with a signatureId in the body call the
\* operation's KMS endpoint of GasPumpService exactly once and nothing else (no
\* local build, no broadcastFunction), and post the body as it was passed, the
\* amount included.
C3_SignatureIdRoutesToKms ==
    (/\ cust.mode = "send"
     /\ cust.op \in {"transferFromCustodialWallet", "batchTransferFromCustodialWallet",
                     "approveFromCustodialWallet"}
     /\ TruthyStr(cust.body0, "signatureId")) =>
        /\ cust.log = <<Call(KmsEndpointOf(cust.op), cust.body0)>>
        /\ cust.body = cust.body0

C3_Witness ==
    /\ cust.mode = "send" /\ cust.op = "approveFromCustodialWallet"
    /\ TruthyStr(cust.body0, "signatureId")
    /\ Has(cust.body0, "amount")
    /\ Len(cust.log) = 1
    /\ Has(cust.log[1].arg, "amount")

\* the parameters handed to helperPrepareSCCall by the approve build, if it got there
ApproveParams == { cust.log[i].arg.params :
                     i \in {j \in DOMAIN cust.log : cust.log[j].fn = "helperPrepareSCCall"} }

\* C8: in approveFromCustodialWallet, contractType 0 fetches the decimals from the
\* token contract and makes the fourth parameter the hexadecimal of
\* floor(amount * 10^decimals); any other contractType fetches nothing and makes it
\* the hexadecimal of the unscaled amount.  (Stated for amounts that are numbers
\* >= 0.)
C8_ApproveAmountIsFloorHex ==
    (/\ cust.op = "approveFromCustodialWallet"
     /\ Has(cust.body0, "amount")
     /\ cust.body0.amount.kind = "num" /\ ~cust.body0.amount.neg) =>
        \A params \in ApproveParams :
            IF cust.body0.contractType = 0
            THEN /\ Count(cust.log, {"evmBasedUtils.decimals"}) = 1
                 /\ params[4] = <<"0", "x">> \o HexDigits(Floor(
                        multipliedBy(BigNumber(cust.body0.amount),
                                     BigInt(Pow(10, cust.ext.decimals)))))
            ELSE /\ Count(cust.log, {"evmBasedUtils.decimals"}) = 0
                 /\ params[4] = Hex0x(BigNumber(cust.body0.amount))

C10_PrepareNeverSendsSendOnce ==
    /\ cust.mode = "prepare" => Count(cust.log, BroadcastFn \cup HostedEndpoints) = 0
    /\ (cust.mode = "send" /\ cust.ok) =>
            Count(cust.log, BroadcastFn \cup HostedEndpoints) = 1

C10_Witness ==
    /\ cust.mode = "send" /\ cust.ok
    /\ Count(cust.log, BroadcastFn) = 1
    /\ Count(cust.log, LocalBuildFns) >= 1

(***************************************************************************)
(* Properties of the Flow send operations.                                 *)
(***************************************************************************)
Started(call) == call.pc # "idle"

Rejected(call) == call.pc = "done" /\ ~call.ok

MissingKeyCodes == {"FLOW_MISSING_MNEMONIC", "FLOW_MISSING_PRIVATE_KEY"}

RejectedMissingKey(call) == Rejected(call) /\ call.err.typed /\ call.err.code \in MissingKeyCodes

\* C1: whenever a call of _sendTransaction that was given a keyHash has returned or
\* rejected, on whichever path (sealed, chain error, failed confirmation wait,
\* failed submission, failed release call), process.env holds no entry under that
\* keyHash.
C1_EnvEntryAbsentAfterCall ==
    \A c \in Calls :
        (flow[c].pc = "done" /\ flow[c].keyHash # NoKeyHash) =>
            flow[c].keyHash[1] \notin DOMAIN env

\* C4: getPrivateKey of a body with both privateKey and mnemonic set returns the
\* raw privateKey unchanged, whatever the index, and does not call
\* generatePrivateKeyFromMnemonic.
C4_PrivateKeyTakesPrecedence ==
    \A c \in Calls :
        (/\ Started(flow[c])
         /\ TruthyStr(flow[c].body, "privateKey")
         /\ TruthyStr(flow[c].body, "mnemonic")) =>
            /\ flow[c].pk = JsString(flow[c].body.privateKey)
            /\ Count(flow[c].log, {"generatePrivateKeyFromMnemonic"}) = 0
            /\ ~RejectedMissingKey(flow[c])

C4_Witness ==
    \E c \in Calls :
        /\ Started(flow[c])
        /\ TruthyStr(flow[c].body, "privateKey")
        /\ TruthyStr(flow[c].body, "mnemonic")
        /\ Has(flow[c].body, "index") /\ flow[c].body.index >= 1
        /\ flow[c].pk = JsString("raw-key")

NoKeyMaterial(body) ==
    /\ ~TruthyStr(body, "privateKey")
    /\ ~TruthyStr(body, "mnemonic")
    /\ ~TruthyStr(body, "signatureId")

\* C5: a Flow send operation whose body has no privateKey, no mnemonic and no
\* signatureId rejects with a missing-key error, with no key resolved, nothing
\* handed to fcl.send, no keyHash taken and no process.env entry registered.
C5_NoKeyMaterialRejectsEarly ==
    \A c \in Calls :
        (Started(flow[c]) /\ NoKeyMaterial(flow[c].body)) =>
            /\ RejectedMissingKey(flow[c])
            /\ flow[c].pk = JsUndefined
            /\ flow[c].log = <<>>
            /\ flow[c].keyHash = NoKeyHash
            /\ ~flow[c].registered

C5_Witness ==
    \E c \in Calls :
        /\ Started(flow[c]) /\ NoKeyMaterial(flow[c].body)
        /\ flow[c].op = "sendNftBurnToken"
        /\ Has(flow[c].body, "index")
        /\ RejectedMissingKey(flow[c])

\* C6: getPrivateKey of a body with no privateKey, a mnemonic and an index >= 0
\* (0 included) returns generatePrivateKeyFromMnemonic(mnemonic, index) and does
\* not fail.
C6_MnemonicIndexDerives ==
    \A c \in Calls :
        (/\ Started(flow[c])
         /\ ~TruthyStr(flow[c].body, "privateKey")
         /\ TruthyStr(flow[c].body, "mnemonic")
         /\ Has(flow[c].body, "index") /\ flow[c].body.index >= 0) =>
            /\ ~RejectedMissingKey(flow[c])
            /\ flow[c].pk = generatePrivateKeyFromMnemonic(flow[c].body.mnemonic,
                                                           flow[c].body.index)

\* C7: a Flow send operation whose body has a signatureId and neither privateKey
\* nor mnemonic does not fail with a missing-key error (key resolution yields the
\* KMS mode).
C7_SignatureIdDoesNotFail ==
    \A c \in Calls :
        (/\ Started(flow[c])
         /\ TruthyStr(flow[c].body, "signatureId")
         /\ ~TruthyStr(flow[c].body, "privateKey")
         /\ ~TruthyStr(flow[c].body, "mnemonic")) =>
            ~RejectedMissingKey(flow[c])

\* C11: every custodial operation, prepare.* and send.*, resolves or rejects with a
\* typed SDK error carrying an error code: no failure of the local build, of
\* broadcastFunction, of the hosted API or of the fee-covered batch generation
\* reaches the caller as an error without a code.
C11_CustodialErrorsAreTyped ==
    (cust.op # "none" /\ ~cust.ok) => (cust.err.typed /\ cust.err.code # "")

\* C13: xrpKmsService.sign of a pending transaction whose chain is not XRP rejects
\* with XrpSdkError(KMS_CHAIN_MISMATCH) without calling rippleAPI.sign; for chain
\* XRP it calls rippleAPI.sign once, on tx.serializedTransaction with the given
\* secret, and returns the signedTransaction of the answer.
C13_XrpSignChainCheck ==
    xrp.called =>
        IF xrp.tx.chain # "XRP"
        THEN /\ ~xrp.ok
             /\ xrp.err = XrpSdkError("KMS_CHAIN_MISMATCH")
             /\ xrp.log = <<>>
        ELSE /\ xrp.log = <<Call("rippleAPI.sign",
                               [txJSON |-> xrp.tx.serializedTransaction, secret |-> xrp.secret])>>
             /\ xrp.ok => xrp.val = [signedTransaction |->
                                       <<"signed", xrp.tx.serializedTransaction, xrp.secret>>]

C13_Witness ==
    /\ xrp.called
    /\ xrp.tx.chain = "BTC"
    /\ ~xrp.ok
    /\ xrp.err.code = "KMS_CHAIN_MISMATCH"

\* C12: once fcl.send has returned a transactionId, the call resolves with a result
\* carrying that id if and only if onceSealed answers without an error: a seal
\* without error always yields the result with that id, and a seal with an error or
\* a failed confirmation wait always yields a rejection with FlowSdkError.
C12_ResolvesIffSealedWithoutError ==
    \A c \in Calls :
        (flow[c].pc = "done" /\ flow[c].sent = "ok") =>
            /\ flow[c].seal = "sealed" => (flow[c].ok /\ flow[c].val.txId = flow[c].txId)
            /\ flow[c].seal \in {"error", "throws"} => (~flow[c].ok /\ flow[c].err.typed)

InFlight(call) == call.pc \in {"send", "seal", "releaseCatch", "releaseFinally"}

\* C14: two send calls in flight at once on the default API proposer carry distinct
\* keyHash tokens, also when both start within the same millisecond, so that each
\* process.env entry is written, read and deleted only by the call that created it.
C14_ConcurrentKeyHashesDistinct ==
    \A c1, c2 \in Calls :
        (c1 # c2 /\ InFlight(flow[c1]) /\ InFlight(flow[c2])
           /\ flow[c1].keyHash # NoKeyHash /\ flow[c2].keyHash # NoKeyHash)
        => flow[c1].keyHash # flow[c2].keyHash

\* the stages of a call in the order Built/Signed (inside fcl.send), Submitted
\* (waiting for the seal), release of the proposal key, and the outcome
Stage(pc) ==
    CASE pc = "idle" -> 0
      [] pc = "send" -> 1
      [] pc = "seal" -> 2
      [] pc \in {"releaseCatch", "releaseFinally"} -> 3
      [] pc = "done" -> 4

Failed(call) == call.sent = "failed" \/ call.seal \in {"error", "throws"}

OneSubmissionNoRetry(call) ==
    /\ Count(call.log, {"fcl.send"}) <= 1
    /\ Count(call.log, {"onceSealed"}) <= 1
    /\ call.sent = "failed" => Count(call.log, {"onceSealed"}) = 0
    /\ Count(call.log, {"onceSealed"}) = 1 => call.sent = "ok"
    /\ Failed(call) => call.pc \in {"releaseCatch", "releaseFinally", "done"}
    /\ (Failed(call) /\ call.pc = "done") => ~call.ok

\* within one call the stage never goes back, and a failed call never submits again
NoBackwardStep(c) ==
    flow'[c].pc # "idle" =>
        /\ Stage(flow'[c].pc) >= Stage(flow[c].pc)
        /\ Failed(flow[c]) =>
              Count(flow'[c].log, {"fcl.send"}) = Count(flow[c].log, {"fcl.send"})

\* C15: a Flow send call goes Built -> Signed -> Submitted -> {Sealed | Errored} with
\* no backward transition and no automatic retry: fcl.send and onceSealed are each
\* invoked at most once per call, onceSealed is never started after a failed
\* submission, and after any failure the call submits nothing more and ends rejected.
C15_NoRetryNoBackwardTransition ==
    /\ [](\A c \in Calls : OneSubmissionNoRetry(flow[c]))
    /\ [][\A c \in Calls : NoBackwardStep(c)]_vars

C15_Witness ==
    \E c \in Calls :
        /\ flow[c].pc = "done"
        /\ flow[c].sent = "failed"
        /\ Count(flow[c].log, {"fcl.send"}) = 1
        /\ Count(flow[c].log, {"onceSealed"}) = 0
        /\ ~flow[c].ok

\* the approve build was run by the call: always in prepare, and in send unless the
\* body carries a signatureId
ApproveBuilt ==
    /\ cust.op = "approveFromCustodialWallet"
    /\ cust.mode = "prepare" \/ ~TruthyStr(cust.body0, "signatureId")

BadAmount(body) ==
    \/ ~Has(body, "amount")
    \/ body.amount.kind = "nan"
    \/ body.amount.neg /\ body.amount.m # 0

\* C16: in the custodial approve build an amount that is missing, negative or
\* non-numeric, and a failed decimals lookup, each end the call with a typed SDK
\* error, and no transaction is built from a defaulted amount.
C16_BadApproveInputIsTypedError ==
    (/\ ApproveBuilt
     /\ \/ BadAmount(cust.body0)
        \/ cust.body0.contractType = 0 /\ cust.ext.decThrows) =>
        /\ ~cust.ok
        /\ cust.err.typed
        /\ ApproveParams = {}

Resolved(call) == call.pc = "done" /\ call.ok

\* C17: whenever sendNftMintToken (createAccountFromPublicKey) resolves, its tokenId
\* (address) is the value of a 'TatumMultiNFT.Minted' ('flow.AccountCreated') event
\* of the sealed transaction; without such an event the call rejects and returns
\* neither the string 'undefined' nor an undefined address.
C17_ResultTakenFromMatchingEvent ==
    \A c \in Calls :
        /\ (Resolved(flow[c]) /\ flow[c].op = "sendNftMintToken") =>
              \E i \in DOMAIN flow[c].events :
                  /\ IsMinted(flow[c].events[i])
                  /\ flow[c].val.tokenId = JsString(flow[c].events[i].data.id)
        /\ (Resolved(flow[c]) /\ flow[c].op = "createAccountFromPublicKey") =>
              \E i \in DOMAIN flow[c].events :
                  /\ IsAccountCreated(flow[c].events[i])
                  /\ flow[c].val.address = JsString(flow[c].events[i].data.address)

\* the release calls a call has made so far
Releases(call) ==
    {call.log[i].arg : i \in {j \in DOMAIN call.log :
                                 call.log[j].fn = "flowSdkBlockchain.broadcast"}}

ReleasedOnce(call, e) ==
    /\ Count(call.log, {"flowSdkBlockchain.broadcast"}) <= 1
    /\ call.keyHash = NoKeyHash => Count(call.log, {"flowSdkBlockchain.broadcast"}) = 0
    /\ (call.keyHash # NoKeyHash /\ call.pc \in {"releaseCatch", "releaseFinally", "done"})
          => Count(call.log, {"flowSdkBlockchain.broadcast"}) = 1
    /\ \A r \in Releases(call) :
          /\ call.sent = "failed" => r.txId = ""
          /\ call.sent = "ok" => (r.txId = call.txId /\ call.seal # "none")
          /\ call.sent # "no"
          /\ call.pc \in {"releaseCatch", "releaseFinally"}
                => r.proposalKey = proposalKey(call.keyHash, e)

\* C18: with a keyHash, _sendTransaction makes the proposal-key release call
\* (flowSdkBlockchain.broadcast with proposalKey(keyHash)) exactly once per call: with
\* an empty transaction id when the submission failed, with the submitted
\* transactionId after the submission, never both; without a keyHash it makes none.
C18_ReleaseCalledExactlyOnce == \A c \in Calls : ReleasedOnce(flow[c], env)

C18_Witness ==
    \E c \in Calls :
        /\ flow[c].pc = "done"
        /\ flow[c].keyHash # NoKeyHash
        /\ flow[c].sent = "ok"
        /\ \E r \in Releases(flow[c]) : r.txId = flow[c].txId /\ r.proposalKey > 0

====
